---- MODULE Spec2Model ----
(***************************************************************************)
(* s3unzip: the zip metadata parser and catalog builder of s3unzip.py.     *)
(*                                                                         *)
(* Bytes are integers 0..255 and byte strings are sequences of them.  A    *)
(* Python int decoded from little-endian bytes is kept as its base-256     *)
(* digits, least significant first, without trailing zero digits, so that  *)
(* 32-bit and 64-bit values compare as the numbers they are and nothing    *)
(* overflows.  A Python exception is the name of its class.                *)
(***************************************************************************)
EXTENDS Integers, Sequences, FiniteSets, TLC

\* ------------------------------------------------------------------ bounds

\* The largest number of records laid out in a central directory region.
MaxItems == 2

\* The largest number of sub-records laid out in an extra-field area handed
\* to parse_extra_fields.
MaxSubs == 2

\* The longest archive comment laid out after an End of Central Directory
\* Record.
MaxComment == 2

\* ------------------------------------------------- Python values and slices

Min(a, b) == IF a < b THEN a ELSE b

\* s[a:b] for 0 <= a, with b clipped to the length of s.
PySlice(s, a, b) ==
    LET e == Min(b, Len(s))
    IN  IF a >= e THEN <<>> ELSE SubSeq(s, a + 1, e)

\* int.from_bytes(bs, byteorder='little') and the integers of struct.unpack.
RECURSIVE FromBytes(_)
FromBytes(bs) ==
    IF bs = <<>> THEN <<>>
    ELSE IF bs[Len(bs)] = 0 THEN FromBytes(SubSeq(bs, 1, Len(bs) - 1))
    ELSE bs

\* A number of 4 or more significant bytes is at least 2^24.
Huge == 256 * 256 * 256

\* The value of a decoded number where the code uses it as a byte count or an
\* index.  Every stream of the model is shorter than Huge, so a larger count
\* reads, and a larger index slices, as Huge does.
AsSize(n) ==
    IF Len(n) > 3 THEN Huge
    ELSE (IF Len(n) > 0 THEN n[1] ELSE 0)
         + (IF Len(n) > 1 THEN 256 * n[2] ELSE 0)
         + (IF Len(n) > 2 THEN 65536 * n[3] ELSE 0)

\* ------------------------------------------------------------- byte streams

\* A file or an in-memory stream: the bytes pre, then a run of zeros zero
\* bytes, then the bytes post.
BytesIO(bs) == [pre |-> bs, zeros |-> 0, post |-> <<>>]

FLen(f) == Len(f.pre) + f.zeros + Len(f.post)

\* The byte at offset i (from 0).
FByte(f, i) ==
    IF i < Len(f.pre) THEN f.pre[i + 1]
    ELSE IF i < Len(f.pre) + f.zeros THEN 0
    ELSE f.post[i - Len(f.pre) - f.zeros + 1]

\* The bytes at offsets a .. b-1, clipped to the end of the stream: what
\* seek(a); read(b - a) returns, and what a slice of a bytes object returns.
FSlice(f, a, b) ==
    LET e == Min(b, FLen(f))
    IN  IF a >= e THEN <<>> ELSE [k \in 1..(e - a) |-> FByte(f, a + k - 1)]

\* read(n) at position pos.
Read(f, pos, n) == FSlice(f, pos, pos + n)

\* -------------------------------------------------- text and date decoding

\* chardet.detect(bs)['encoding'] followed by bs.decode(encoding).  An empty
\* string is detected as None, and decode(None) raises TypeError.  Bytes that
\* are all 7-bit, with no escape sequence, are detected as ascii and decode to
\* the code points they are.  For anything else the detector's answer g is
\* one of None, an encoding that decodes the bytes, and one that does not.
IsPureAscii(bs) ==
    /\ \A i \in 1..Len(bs) : bs[i] < 128 /\ bs[i] # 27
    /\ \A i \in 1..(Len(bs) - 1) : ~(bs[i] = 126 /\ bs[i + 1] = 123)

Decode(bs, g) ==
    IF bs = <<>> THEN [err |-> "TypeError", text |-> <<>>]
    ELSE IF IsPureAscii(bs) THEN [err |-> "none", text |-> bs]
    ELSE IF g = "None" THEN [err |-> "TypeError", text |-> <<>>]
    ELSE IF g = "mismatch" THEN [err |-> "UnicodeDecodeError", text |-> <<>>]
    ELSE [err |-> "none", text |-> <<g>> \o bs]

ChardetAnswers == {"None", "mismatch", "utf-8"}

IsLeap(y) == y % 4 = 0 /\ (y % 100 # 0 \/ y % 400 = 0)

DaysInMonth(y, m) ==
    IF m = 2 THEN (IF IsLeap(y) THEN 29 ELSE 28)
    ELSE IF m \in {4, 6, 9, 11} THEN 30 ELSE 31

\* datetime.datetime(y, mo, d, h, mi, s) of the packed DOS date and time.
DosDateTime(date, time) ==
    LET y  == (date \div 512) + 1980
        mo == (date \div 32) % 16
        d  == date % 32
        h  == time \div 2048
        mi == (time \div 32) % 64
        s  == (time % 32) * 2
    IN  IF /\ mo \in 1..12
           /\ d >= 1 /\ d <= DaysInMonth(y, mo)
           /\ h <= 23 /\ mi <= 59 /\ s <= 59
        THEN [err |-> "none", val |-> <<y, mo, d, h, mi, s>>]
        ELSE [err |-> "ValueError", val |-> <<>>]

\* ------------------------------------------------------- Python dictionaries

EmptyDict == [k \in {} |-> <<>>]

\* d[key] = val
DictSet(d, key, val) ==
    [k \in DOMAIN d \cup {key} |-> IF k = key THEN val ELSE d[k]]

\* d.update(e)
DictUpdate(d, e) ==
    [k \in DOMAIN d \cup DOMAIN e |-> IF k \in DOMAIN e THEN e[k] ELSE d[k]]

\* struct.unpack('<H', bs) as a count or an identifier.
U16(bs) == bs[1] + 256 * bs[2]

\* ------------------------------------------------------- extra-field decoders

HidUniversalTime == 21589
HidUidGid == 30837
HidZip64 == 1

BitSet(flags, bit) == (flags \div bit) % 2 = 1

\* _extra_field_universal_time.  A datetime made by utcfromtimestamp(secs) is
\* kept as secs.
ExtraFieldUniversalTime(hlen, hbytes, in_cd) ==
    IF in_cd
    THEN [err |-> "none",
          val |-> [mod_time |-> IF hlen > 1 THEN FromBytes(PySlice(hbytes, 1, 5))
                                ELSE FromBytes(<<>>)]]
    ELSE IF hbytes = <<>> THEN [err |-> "IndexError", val |-> EmptyDict]
    ELSE
      LET flags == hbytes[1]
          h1 == PySlice(hbytes, 1, Len(hbytes))
          h2 == IF BitSet(flags, 1) /\ Len(h1) > 3 THEN PySlice(h1, 4, Len(h1)) ELSE h1
          h3 == IF BitSet(flags, 2) /\ Len(h2) > 3 THEN PySlice(h2, 4, Len(h2)) ELSE h2
          keys == (IF BitSet(flags, 1) THEN {"mod_time"} ELSE {})
                  \cup (IF BitSet(flags, 2) THEN {"acc_time"} ELSE {})
                  \cup (IF BitSet(flags, 4) THEN {"cre_time"} ELSE {})
      IN  [err |-> "none",
           val |-> [k \in keys |->
                      IF k = "mod_time" THEN FromBytes(PySlice(h1, 0, 4))
                      ELSE IF k = "acc_time" THEN FromBytes(PySlice(h2, 0, 4))
                      ELSE FromBytes(PySlice(h3, 0, 4))]]

\* _extra_field_uid_gid
ExtraFieldUidGid(hbytes) ==
    IF hbytes = <<>> THEN [err |-> "IndexError", val |-> EmptyDict]
    ELSE IF hbytes[1] # 1
    THEN [err |-> "none", val |-> [version |-> FromBytes(<<hbytes[1]>>)]]
    ELSE
      LET h1 == PySlice(hbytes, 1, Len(hbytes))
      IN  IF h1 = <<>> THEN [err |-> "IndexError", val |-> EmptyDict]
          ELSE
            LET uid_len == h1[1]
                h2 == PySlice(h1, 1, Len(h1))
                uid == FromBytes(PySlice(h2, 0, uid_len))
                h3 == PySlice(h2, 0, uid_len)
            IN  IF h3 = <<>> THEN [err |-> "IndexError", val |-> EmptyDict]
                ELSE
                  LET gid_len == h3[1]
                      h4 == PySlice(h3, 1, Len(h3))
                  IN  [err |-> "none",
                       val |-> [version |-> FromBytes(<<1>>),
                                uid |-> uid,
                                gid |-> FromBytes(PySlice(h4, 0, gid_len))]]

\* A decoder that takes every field as present, whatever length is declared.
Zip64FieldNamesAll(hlen) == {"uncomp_len", "comp_len", "start", "disk_num"}

\* The field names and the struct.calcsize of the parse map that
\* _extra_field_zip64_extended_info builds for a declared length.
Zip64FieldNames(hlen) ==
    {"uncomp_len"} \cup (IF hlen > 8 THEN {"comp_len"} ELSE {})
                   \cup (IF hlen > 16 THEN {"start"} ELSE {})
                   \cup (IF hlen > 24 THEN {"disk_num"} ELSE {})

Zip64ParseSize(hlen) ==
    8 + (IF hlen > 8 THEN 8 ELSE 0) + (IF hlen > 16 THEN 8 ELSE 0)
      + (IF hlen > 24 THEN 4 ELSE 0)

\* _extra_field_zip64_extended_info
ExtraFieldZip64ExtendedInfo(hlen, hbytes) ==
    IF Len(hbytes) # Zip64ParseSize(hlen)
    THEN [err |-> "struct.error", val |-> EmptyDict]
    ELSE [err |-> "none",
          val |-> [k \in Zip64FieldNames(hlen) |->
                     IF k = "uncomp_len" THEN FromBytes(PySlice(hbytes, 0, 8))
                     ELSE IF k = "comp_len" THEN FromBytes(PySlice(hbytes, 8, 16))
                     ELSE IF k = "start" THEN FromBytes(PySlice(hbytes, 16, 24))
                     ELSE FromBytes(PySlice(hbytes, 24, 28))]]

\* A Zip64 branch that stores the sub-record and leaves the header as it was.
ApplyOverwriteDropped(overwrite, zip64extra) == overwrite

\* overwrite.update(extra_fields[hid]) of the Zip64 branch.
ApplyOverwrite(overwrite, zip64extra) == DictUpdate(overwrite, zip64extra)

\* A dispatch with no else branch: an unknown identifier is a KeyError.
DecodeSubRecordKnownOnly(hid, hlen, hbytes, in_cd) ==
    IF hid = HidUniversalTime THEN ExtraFieldUniversalTime(hlen, hbytes, in_cd)
    ELSE IF hid = HidUidGid THEN ExtraFieldUidGid(hbytes)
    ELSE IF hid = HidZip64 THEN ExtraFieldZip64ExtendedInfo(hlen, hbytes)
    ELSE [err |-> "KeyError", val |-> EmptyDict]

\* One decoded sub-record, by identifier.  An unknown identifier keeps its
\* payload bytes as they are.
DecodeSubRecord(hid, hlen, hbytes, in_cd) ==
    IF hid = HidUniversalTime THEN ExtraFieldUniversalTime(hlen, hbytes, in_cd)
    ELSE IF hid = HidUidGid THEN ExtraFieldUidGid(hbytes)
    ELSE IF hid = HidZip64 THEN ExtraFieldZip64ExtendedInfo(hlen, hbytes)
    ELSE [err |-> "none", val |-> [raw |-> hbytes]]

\* The loop of parse_extra_fields from stream position pos, with the
\* extra_fields and overwrite dictionaries built so far; StoreSubRecord is the
\* rest of an iteration once the sub-record at pos is decoded as dec and the
\* stream stands at next.
RECURSIVE ParseExtraLoop(_, _, _, _, _)
RECURSIVE StoreSubRecord(_, _, _, _, _, _, _)
StoreSubRecord(extra_bytes, next, extra_fields, overwrite, in_cd, hid, dec) ==
    IF dec.err # "none"
    THEN [err |-> dec.err, extra |-> extra_fields, overwrite |-> overwrite]
    ELSE ParseExtraLoop(extra_bytes, next, DictSet(extra_fields, hid, dec.val),
                        IF hid = HidZip64 THEN ApplyOverwrite(overwrite, dec.val)
                        ELSE overwrite,
                        in_cd)

\* The sub-record whose 4-byte head was read at pos: its payload and what it
\* decodes to.
ReadSubRecord(extra_bytes, pos, extra_fields, overwrite, in_cd, hid, hlen, hbytes) ==
    StoreSubRecord(extra_bytes, pos + 4 + Len(hbytes), extra_fields, overwrite,
                   in_cd, hid, DecodeSubRecord(hid, hlen, hbytes, in_cd))

ParseExtraLoop(extra_bytes, pos, extra_fields, overwrite, in_cd) ==
    LET head == PySlice(extra_bytes, pos, pos + 4)
    IN  IF head = <<>>
        THEN [err |-> "none", extra |-> extra_fields, overwrite |-> overwrite]
        ELSE IF Len(head) < 4
        THEN [err |-> "struct.error", extra |-> extra_fields, overwrite |-> overwrite]
        ELSE ReadSubRecord(extra_bytes, pos, extra_fields, overwrite, in_cd,
                           U16(PySlice(head, 0, 2)), U16(PySlice(head, 2, 4)),
                           PySlice(extra_bytes, pos + 4,
                                   pos + 4 + U16(PySlice(head, 2, 4))))

\* parse_extra_fields
ParseExtraFields(extra_bytes, overwrite, in_cd) ==
    ParseExtraLoop(extra_bytes, 0, EmptyDict, overwrite, in_cd)

\* --------------------------------------------------------- record signatures

\* header_id of struct.unpack('<L', ...) for each record, and the byte
\* strings that find_central_dir searches for.
SigCentralDirFileHeader == FromBytes(<<80, 75, 1, 2>>)
SigEndOfCentralDir == FromBytes(<<80, 75, 5, 6>>)
SigEndOfCentralDirZip64 == FromBytes(<<80, 75, 6, 6>>)
SigEndOfCentralDirLocatorZip64 == FromBytes(<<80, 75, 6, 7>>)
SigLocalFileHeader == FromBytes(<<80, 75, 3, 4>>)

\* 0xffffffff
Sentinel32 == FromBytes(<<255, 255, 255, 255>>)

\* ------------------------------------------------------------ record parsers
\* Each parser reads the stream f from position pos and returns the exception
\* raised (err), the record, and the position the stream is left at.

NoRecord == EmptyDict

ParseFailed(e, p) == [err |-> e, rec |-> NoRecord, base |-> NoRecord, pos |-> p]

\* struct.unpack('<HHHHHHIIIHHHHHII', ...) bound to the field names, with the
\* decoded file name and date_time added.
UnpackCentralDirFileHeader(fixed, fname, date_time) ==
    LET fl(a, b) == FromBytes(PySlice(fixed, a, b))
    IN  [ver |-> fl(0, 2), minver |-> fl(2, 4), flags |-> fl(4, 6),
         method |-> fl(6, 8), time |-> fl(8, 10), date |-> fl(10, 12),
         crc32 |-> fl(12, 16), comp_len |-> fl(16, 20),
         uncomp_len |-> fl(20, 24), fname_len |-> fl(24, 26),
         extra_len |-> fl(26, 28), comment_len |-> fl(28, 30),
         disk_num |-> fl(30, 32), iattr |-> fl(32, 34),
         eattr |-> fl(34, 38), start |-> fl(38, 42),
         fname |-> fname, date_time |-> date_time]

\* The end of parse_central_dir_file_header: the comment is decoded and the
\* record returned.
CentralHeaderComment(base, pe, comment_bytes, comment, p2) ==
    IF comment.err # "none" THEN ParseFailed(comment.err, p2 + Len(comment_bytes))
    ELSE [err |-> "none",
          rec |-> DictUpdate(pe.overwrite,
                             [extra |-> pe.extra, comment |-> comment.text]),
          base |-> base,
          pos |-> p2 + Len(comment_bytes)]

\* The extra fields are parsed, then the comment is read if its length is not 0.
CentralHeaderExtra(f, g, base, pe, comment_len, p2) ==
    IF pe.err # "none" THEN ParseFailed(pe.err, p2)
    ELSE IF comment_len > 0
    THEN CentralHeaderComment(base, pe, Read(f, p2, comment_len),
                              Decode(Read(f, p2, comment_len), g), p2)
    ELSE CentralHeaderComment(base, pe, <<>>, [err |-> "none", text |-> <<>>], p2)

\* The record as unpacked is handed to parse_extra_fields with the extra bytes.
CentralHeaderBase(f, g, base, extra_bytes, comment_len, p1) ==
    CentralHeaderExtra(f, g, base, ParseExtraFields(extra_bytes, base, TRUE),
                       comment_len, p1 + Len(extra_bytes))

\* The file name is decoded, then the date and time, then the extra bytes are
\* read.
CentralHeaderName(f, g, fixed, fname, date_time, p1) ==
    IF fname.err # "none" THEN ParseFailed(fname.err, p1)
    ELSE IF date_time.err # "none" THEN ParseFailed(date_time.err, p1)
    ELSE CentralHeaderBase(f, g,
                           UnpackCentralDirFileHeader(fixed, fname.text, date_time.val),
                           Read(f, p1, U16(PySlice(fixed, 26, 28))),
                           U16(PySlice(fixed, 28, 30)), p1)

\* The 42 fixed bytes are unpacked, then the file name is read.
CentralHeaderFixed(f, pos, g, fixed, fname_bytes) ==
    CentralHeaderName(f, g, fixed, Decode(fname_bytes, g),
                      DosDateTime(U16(PySlice(fixed, 10, 12)),
                                  U16(PySlice(fixed, 8, 10))),
                      pos + 42 + Len(fname_bytes))

\* parse_central_dir_file_header; base is the record as unpacked, before
\* parse_extra_fields is given it to overwrite.
ParseCentralDirFileHeader(f, pos, g) ==
    LET fixed == Read(f, pos, 42)
    IN  IF Len(fixed) < 42 THEN ParseFailed("struct.error", pos + Len(fixed))
        ELSE CentralHeaderFixed(f, pos, g, fixed,
                                Read(f, pos + 42, U16(PySlice(fixed, 24, 26))))

\* The end of parse_endof_central_dir_record, the 18 fixed bytes read and the
\* comment read and decoded.
EndRecordComment(fixed, comment_bytes, comment, pos) ==
    LET fl(a, b) == FromBytes(PySlice(fixed, a, b))
    IN  IF comment.err # "none"
        THEN [err |-> comment.err, rec |-> NoRecord,
              pos |-> pos + 18 + Len(comment_bytes)]
        ELSE [err |-> "none",
              rec |-> [disk_num |-> fl(0, 2), dir_disk_num |-> fl(2, 4),
                       disk_records_num |-> fl(4, 6), tot_records_num |-> fl(6, 8),
                       dir_len |-> fl(8, 12), dir_start |-> fl(12, 16),
                       comment_len |-> fl(16, 18), comment |-> comment.text],
              pos |-> pos + 18 + Len(comment_bytes)]

EndRecordFixed(f, pos, g, fixed, comment_len) ==
    IF Len(fixed) < 18
    THEN [err |-> "struct.error", rec |-> NoRecord, pos |-> pos + Len(fixed)]
    ELSE IF comment_len > 0
    THEN EndRecordComment(fixed, Read(f, pos + 18, comment_len),
                          Decode(Read(f, pos + 18, comment_len), g), pos)
    ELSE EndRecordComment(fixed, <<>>, [err |-> "none", text |-> <<>>], pos)

\* parse_endof_central_dir_record
ParseEndOfCentralDirRecord(f, pos, g) ==
    LET fixed == Read(f, pos, 18)
    IN  EndRecordFixed(f, pos, g, fixed,
                       IF Len(fixed) < 18 THEN 0 ELSE U16(PySlice(fixed, 16, 18)))

\* The end of parse_endof_central_dir_record_zip64, the 52 fixed bytes read
\* and the comment read and decoded.
EndRecordZip64Comment(fixed, comment_bytes, comment, pos) ==
    LET fl(a, b) == FromBytes(PySlice(fixed, a, b))
    IN  IF comment.err # "none"
        THEN [err |-> comment.err, rec |-> NoRecord,
              pos |-> pos + 52 + Len(comment_bytes)]
        ELSE [err |-> "none",
              rec |-> [len |-> fl(0, 8), ver |-> fl(8, 10), minver |-> fl(10, 12),
                       disk_num |-> fl(12, 16), dir_disk_num |-> fl(16, 20),
                       disk_records_num |-> fl(20, 28),
                       tot_records_num |-> fl(28, 36), dir_len |-> fl(36, 44),
                       dir_start |-> fl(44, 52), comment |-> comment.text],
              pos |-> pos + 52 + Len(comment_bytes)]

EndRecordZip64Fixed(f, pos, g, fixed, len) ==
    IF Len(fixed) < 52
    THEN [err |-> "struct.error", rec |-> NoRecord, pos |-> pos + Len(fixed)]
    ELSE IF len > 52
    THEN EndRecordZip64Comment(fixed, Read(f, pos + 52, len - 52),
                               Decode(Read(f, pos + 52, len - 52), g), pos)
    ELSE EndRecordZip64Comment(fixed, <<>>, [err |-> "none", text |-> <<>>], pos)

\* parse_endof_central_dir_record_zip64
ParseEndOfCentralDirRecordZip64(f, pos, g) ==
    LET fixed == Read(f, pos, 52)
    IN  EndRecordZip64Fixed(f, pos, g, fixed, AsSize(FromBytes(PySlice(fixed, 0, 8))))

\* parse_endof_central_dir_locator_zip64
ParseEndOfCentralDirLocatorZip64(f, pos) ==
    LET fixed == Read(f, pos, 16)
        fl(a, b) == FromBytes(PySlice(fixed, a, b))
    IN  IF Len(fixed) < 16
        THEN [err |-> "struct.error", rec |-> NoRecord, pos |-> pos + Len(fixed)]
        ELSE [err |-> "none",
              rec |-> [disk_num |-> fl(0, 4), start_zip64 |-> fl(4, 12),
                       tot_disk_num |-> fl(12, 16)],
              pos |-> pos + 16]

\* ------------------------------------------------------------ find_central_dir

\* 65536 + 18 + 4: the longest comment, the End of Central Directory Record
\* and its signature.
SearchWindow == 65536 + 18 + 4

\* The bytes of f at offsets a .. b-1 as a stream of their own.
SubStream(f, a, b) ==
    LET lp == Len(f.pre)
        e == Min(b, FLen(f))
        zs == IF a > lp THEN a ELSE lp
        ze == Min(e, lp + f.zeros)
        ps == IF a > lp + f.zeros THEN a - lp - f.zeros ELSE 0
    IN  [pre |-> PySlice(f.pre, a, e),
         zeros |-> IF ze > zs THEN ze - zs ELSE 0,
         post |-> IF e > lp + f.zeros THEN PySlice(f.post, ps, e - lp - f.zeros)
                  ELSE <<>>]

\* A seek whose handler raises every OSError again, EINVAL too.
SeekFromEndNoFallback(f, kind) ==
    IF kind = "broken" THEN [err |-> "OSError", pos |-> 0, einval |-> FALSE]
    ELSE IF FLen(f) >= SearchWindow
    THEN [err |-> "none", pos |-> FLen(f) - SearchWindow, einval |-> FALSE]
    ELSE IF kind = "local" THEN [err |-> "OSError", pos |-> 0, einval |-> TRUE]
    ELSE [err |-> "none", pos |-> 0, einval |-> FALSE]

\* Where the search starts.  s3_stream.seek(-65558, io.SEEK_END) of a stream at
\* least that long lands at its length less 65558.  On a shorter stream a local
\* file raises OSError(EINVAL), which the handler answers by seek(0), an
\* in-memory or object-storage stream moves to 0 by itself, and any other
\* OSError is raised again.
SeekFromEnd(f, kind) ==
    IF kind = "broken" THEN [err |-> "OSError", pos |-> 0, einval |-> FALSE]
    ELSE IF FLen(f) >= SearchWindow
    THEN [err |-> "none", pos |-> FLen(f) - SearchWindow, einval |-> FALSE]
    ELSE IF kind = "local" THEN [err |-> "none", pos |-> 0, einval |-> TRUE]
    ELSE [err |-> "none", pos |-> 0, einval |-> FALSE]

\* byte_block.find(sig): the lowest offset at which sig occurs, or -1.  A
\* signature starts with a non-zero byte, so no occurrence starts inside the
\* run of zeros.
MatchAt(block, sig, k) ==
    /\ k + Len(sig) <= FLen(block)
    /\ \A j \in 1..Len(sig) : FByte(block, k + j - 1) = sig[j]

BytesFind(block, sig) ==
    LET cand == (0 .. (Len(block.pre) - 1))
                \cup ((Len(block.pre) + block.zeros) .. (FLen(block) - 1))
        hits == {k \in cand : MatchAt(block, sig, k)}
    IN  IF hits = {} THEN -1 ELSE CHOOSE k \in hits : \A h \in hits : k <= h

Located(e, v, addr, addr64, z) ==
    [err |-> e, cd_pos |-> v, addr |-> addr, addr64 |-> addr64, zip64 |-> z]

\* The zip64 record is parsed and its dir_start returned.
SearchZip64Parsed(addr, addr64, ecdr64) ==
    IF ecdr64.err # "none" THEN Located(ecdr64.err, <<>>, addr, addr64, TRUE)
    ELSE Located("none", ecdr64.rec.dir_start, addr, addr64, TRUE)

\* The length field of the zip64 record found at addr64 is unpacked, and the
\* record parsed from the slice that length gives.
SearchZip64(byte_block, g, addr, addr64, len_bytes) ==
    IF Len(len_bytes) # 8 THEN Located("struct.error", <<>>, addr, addr64, TRUE)
    ELSE SearchZip64Parsed(addr, addr64,
             ParseEndOfCentralDirRecordZip64(
                 SubStream(byte_block, addr64 + 4,
                           addr64 + 4 + AsSize(FromBytes(len_bytes)) + 8),
                 0, g))

\* The signature of the zip64 record is looked for in the block.
SearchZip64Marker(byte_block, g, addr, addr64) ==
    SearchZip64(byte_block, g, addr, addr64,
                FSlice(byte_block, addr64 + 4, addr64 + 4 + 8))

\* cd_pos is the record's dir_start, unless that is 0xffffffff.
SearchParsed(byte_block, g, addr, ecdr) ==
    IF ecdr.err # "none" THEN Located(ecdr.err, <<>>, addr, -1, FALSE)
    ELSE IF ecdr.rec.dir_start # Sentinel32
    THEN Located("none", ecdr.rec.dir_start, addr, -1, FALSE)
    ELSE SearchZip64Marker(byte_block, g, addr,
                           BytesFind(byte_block, <<80, 75, 6, 6>>))

\* The record is parsed from the 18 bytes after the signature found at addr;
\* addr is -1 when there is none, and no exception is raised for that.
SearchMarker(byte_block, g, addr) ==
    SearchParsed(byte_block, g, addr,
                 ParseEndOfCentralDirRecord(
                     SubStream(byte_block, addr + 4, addr + 4 + 18), 0, g))

\* The search of find_central_dir in the block read; the result carries the
\* offsets found (addr, addr64) beside the value returned (cd_pos).
SearchBlock(byte_block, g) ==
    SearchMarker(byte_block, g, BytesFind(byte_block, <<80, 75, 5, 6>>))

\* What find_central_dir returns or raises, with where it searched from.
FindFrom(f, g, sk) ==
    IF sk.err # "none"
    THEN [found |-> Located(sk.err, <<>>, -1, -1, FALSE),
          from |-> sk.pos, einval |-> sk.einval]
    ELSE [found |-> SearchBlock(SubStream(f, sk.pos, sk.pos + SearchWindow), g),
          from |-> sk.pos, einval |-> sk.einval]

\* find_central_dir
FindCentralDir(f, kind, g) == FindFrom(f, g, SeekFromEnd(f, kind))

\* ----------------------------------------------------------- archive layouts
\* The byte layouts the parsers read, used to lay out the input streams.

LE16(n) == <<n % 256, n \div 256>>
LE32(n) == <<n % 256, (n \div 256) % 256, (n \div 65536) % 256, n \div 16777216>>
LE64(n) == LE32(n) \o <<0, 0, 0, 0>>

\* 4311744512, 4312442995 and 4312443080 as 64-bit fields.
BigLength == <<0, 0, 0, 1, 1, 0, 0, 0>>
BigCompLength == <<115, 168, 10, 1, 1, 0, 0, 0>>
BigOffset == <<200, 168, 10, 1, 1, 0, 0, 0>>

AllOnes32 == <<255, 255, 255, 255>>

\* 2023-12-31 12:51:02 in the packed DOS form.
DosTime == 26209
DosDate == 22431

NameA == <<97>>
NameB == <<98>>

\* One extra-field sub-record: identifier, declared length, payload.
SubRecord(hid, declared, payload) == LE16(hid) \o LE16(declared) \o payload

UniversalTimePayload == <<3, 150, 71, 145, 101>>
UidGidPayload == <<1, 4, 232, 3, 0, 0, 4, 100, 0, 0, 0>>
HidUnknown == 39321

\* The sub-records the inputs are made of, by kind.
SubBytes(kind) ==
    CASE kind = "ut"      -> SubRecord(HidUniversalTime, 5, UniversalTimePayload)
      [] kind = "ut1"     -> SubRecord(HidUniversalTime, 1, <<3>>)
      [] kind = "ut0"     -> SubRecord(HidUniversalTime, 0, <<>>)
      [] kind = "ut13"    -> SubRecord(HidUniversalTime, 13,
                                       <<7>> \o LE32(11) \o LE32(22) \o LE32(33))
      [] kind = "ut9"     -> SubRecord(HidUniversalTime, 9, <<6>> \o LE32(22) \o LE32(33))
      [] kind = "ut3"     -> SubRecord(HidUniversalTime, 3, <<5, 44, 55>>)
      [] kind = "ux"      -> SubRecord(HidUidGid, 11, UidGidPayload)
      [] kind = "ux2"     -> SubRecord(HidUidGid, 3, <<2, 9, 9>>)
      [] kind = "uxEmpty" -> SubRecord(HidUidGid, 0, <<>>)
      [] kind = "uxShort" -> SubRecord(HidUidGid, 1, <<1>>)
      [] kind = "z8"      -> SubRecord(HidZip64, 8, BigLength)
      [] kind = "z16"     -> SubRecord(HidZip64, 16, BigLength \o BigCompLength)
      [] kind = "z24"     -> SubRecord(HidZip64, 24,
                                       BigLength \o BigCompLength \o BigOffset)
      [] kind = "z28"     -> SubRecord(HidZip64, 28,
                                       LE64(9) \o LE64(8) \o LE64(31) \o LE32(2))
      [] kind = "z12"     -> SubRecord(HidZip64, 12, BigLength \o <<1, 2, 3, 4>>)
      [] kind = "unk"     -> SubRecord(HidUnknown, 2, <<17, 34>>)
      [] kind = "cut"     -> <<85, 84, 5>>

RECURSIVE ExtraArea(_)
ExtraArea(kinds) ==
    IF kinds = <<>> THEN <<>> ELSE SubBytes(Head(kinds)) \o ExtraArea(Tail(kinds))

\* A Central Directory File Header record with its signature.
CentralHeader(name, date, comp, uncomp, start, extra, comment) ==
    <<80, 75, 1, 2>> \o LE16(798) \o LE16(10) \o LE16(0) \o LE16(0)
    \o LE16(DosTime) \o LE16(date) \o LE32(0) \o comp \o uncomp
    \o LE16(Len(name)) \o LE16(Len(extra)) \o LE16(Len(comment))
    \o LE16(0) \o LE16(0) \o <<0, 0, 164, 129>> \o start
    \o name \o extra \o comment

\* A Local File Header record with its signature, of an empty member.
LocalHeader(name) ==
    <<80, 75, 3, 4>> \o LE16(10) \o LE16(0) \o LE16(0) \o LE16(DosTime)
    \o LE16(DosDate) \o LE32(0) \o LE32(0) \o LE32(0)
    \o LE16(Len(name)) \o LE16(0) \o name

\* An End of Central Directory Record with its signature.
EndRecord(dir_len, dir_start, declared, comment) ==
    <<80, 75, 5, 6>> \o LE16(0) \o LE16(0) \o LE16(1) \o LE16(1)
    \o dir_len \o dir_start \o LE16(declared) \o comment

\* A Zip64 End of Central Directory Record with its signature: the size field
\* counts the bytes that follow it, 44 and the extensible data.
EndRecord64(dir_start, extensible) ==
    <<80, 75, 6, 6>> \o LE64(44 + Len(extensible)) \o LE16(798) \o LE16(45)
    \o LE32(0) \o LE32(0) \o LE64(1) \o LE64(1) \o LE64(47) \o dir_start
    \o extensible

\* A Zip64 End of Central Directory Locator with its signature.
EndLocator64(start_zip64) ==
    <<80, 75, 6, 7>> \o LE32(0) \o start_zip64 \o LE32(1)

\* The members' Local File Headers: a at offset 0 and b at offset 31.
LocalPart == LocalHeader(NameA) \o LocalHeader(NameB)
OffsetB == Len(LocalHeader(NameA))
CdStart == Len(LocalPart)

\* The records a central directory region is made of, by kind: well-formed
\* file headers, file headers that some decoder rejects, the three end records,
\* bytes that are no record, and records cut short.
ItemBytes(kind) ==
    CASE kind = "plainA"   -> CentralHeader(NameA, DosDate, LE32(5), LE32(5), LE32(0),
                                            <<>>, <<>>)
      [] kind = "timedB"   -> CentralHeader(NameB, DosDate, LE32(7), LE32(7),
                                            LE32(OffsetB), ExtraArea(<<"ut", "ux">>),
                                            <<104, 105>>)
      [] kind = "latinA"   -> CentralHeader(<<233>>, DosDate, LE32(3), LE32(3), LE32(0),
                                            <<>>, <<>>)
      [] kind = "z28B"     -> CentralHeader(NameB, DosDate, AllOnes32, AllOnes32,
                                            AllOnes32, ExtraArea(<<"z28">>), <<>>)
      [] kind = "z8B"      -> CentralHeader(NameB, DosDate, LE32(7), AllOnes32,
                                            LE32(OffsetB), ExtraArea(<<"z8">>), <<>>)
      [] kind = "z24A"     -> CentralHeader(NameA, DosDate, AllOnes32, AllOnes32,
                                            AllOnes32, ExtraArea(<<"ut", "z24">>), <<>>)
      [] kind = "unkA"     -> CentralHeader(NameA, DosDate, AllOnes32, AllOnes32,
                                            LE32(0), ExtraArea(<<"unk", "z16">>), <<>>)
      [] kind = "badZip64" -> CentralHeader(NameB, DosDate, LE32(7), AllOnes32,
                                            LE32(OffsetB), ExtraArea(<<"z12">>), <<>>)
      [] kind = "badUx"    -> CentralHeader(NameA, DosDate, LE32(5), LE32(5), LE32(0),
                                            ExtraArea(<<"ut", "uxEmpty">>), <<>>)
      [] kind = "badSub"   -> CentralHeader(NameB, DosDate, LE32(7), LE32(7),
                                            LE32(OffsetB), ExtraArea(<<"cut">>), <<>>)
      [] kind = "noName"   -> CentralHeader(<<>>, DosDate, LE32(5), LE32(5), LE32(0),
                                            <<>>, <<>>)
      [] kind = "badDate"  -> CentralHeader(NameA, 0, LE32(5), LE32(5), LE32(0),
                                            <<>>, <<>>)
      [] kind = "eocd"     -> EndRecord(LE32(47), LE32(CdStart), 0, <<>>)
      [] kind = "eocdC"    -> EndRecord(LE32(47), LE32(CdStart), 2, <<104, 105>>)
      [] kind = "eocd64"   -> EndRecord64(LE64(CdStart), <<>>)
      [] kind = "eocd64x"  -> EndRecord64(LE64(CdStart), <<1, 2, 3, 4>>)
      [] kind = "locator"  -> EndLocator64(LE64(CdStart))
      [] kind = "unknown"  -> LocalHeader(NameA)
      [] kind = "short"    -> <<80, 75>>
      [] kind = "cutHead"  -> SubSeq(CentralHeader(NameA, DosDate, LE32(5), LE32(5),
                                                   LE32(0), <<>>, <<>>), 1, 20)
      [] kind = "cutComment" -> SubSeq(CentralHeader(NameA, DosDate, LE32(5), LE32(5),
                                                     LE32(0), <<>>, <<104, 105>>),
                                       1, 48)

GoodHeaderKinds == {"plainA", "timedB", "latinA", "z28B", "z8B", "z24A", "unkA"}
BadHeaderKinds == {"badZip64", "badUx", "badSub", "noName", "badDate"}
EndKinds == {"eocd", "eocdC", "eocd64", "eocd64x", "locator"}
ItemKinds == GoodHeaderKinds \cup BadHeaderKinds \cup EndKinds
             \cup {"unknown", "short", "cutHead", "cutComment"}

RECURSIVE Region(_)
Region(kinds) ==
    IF kinds = <<>> THEN <<>> ELSE ItemBytes(Head(kinds)) \o Region(Tail(kinds))

\* The archive comment of a given length.
Comment(n) == [i \in 1..n |-> 120]

\* What follows the central directory, by kind; dir_start is where the central
\* directory starts and c is the length of the archive comment.
Trailer(kind, dir_len, dir_start, c) ==
    CASE kind = "eocd"    -> EndRecord(LE32(dir_len), LE32(dir_start), c, Comment(c))
      [] kind = "zip64"   -> EndRecord64(LE64(dir_start), <<>>)
                             \o EndLocator64(LE64(dir_start + dir_len))
                             \o EndRecord(AllOnes32, AllOnes32, c, Comment(c))
      [] kind = "big64"   -> EndRecord64(BigOffset, <<>>)
                             \o EndLocator64(LE64(dir_start + dir_len))
                             \o EndRecord(AllOnes32, AllOnes32, c, Comment(c))
      [] kind = "big64x"  -> EndRecord64(BigOffset, <<1, 2, 3, 4>>)
                             \o EndLocator64(LE64(dir_start + dir_len))
                             \o EndRecord(AllOnes32, AllOnes32, c, Comment(c))
      [] kind = "big64y"  -> EndRecord64(BigOffset, <<97, 98, 99, 100, 101, 102, 103,
                                                     104, 105, 106, 107, 108>>)
                             \o EndLocator64(LE64(dir_start + dir_len))
                             \o EndRecord(AllOnes32, AllOnes32, c, Comment(c))
      [] kind = "lost64"  -> EndRecord(AllOnes32, AllOnes32, c, Comment(c))
      [] kind = "cutEocd" -> SubSeq(EndRecord(LE32(dir_len), LE32(dir_start), 0, <<>>),
                                    1, 14)
      [] kind = "none"    -> <<>>

TrailerKinds == {"eocd", "zip64", "big64", "big64x", "big64y", "lost64", "cutEocd",
                 "none"}

\* ---------------------------------------------------------------- the catalog

\* files_in_zip: a dictionary in insertion order, names the keys in the order
\* they were first inserted and at the entry of each.
EmptyCatalog == [names |-> <<>>, at |-> EmptyDict]

\* An upsert that keeps the entry a name already has.
CatalogPutKeepFirst(files, fname, fields) ==
    IF fname \in DOMAIN files.at THEN files
    ELSE [names |-> Append(files.names, fname),
          at |-> [k \in DOMAIN files.at \cup {fname} |->
                    IF k = fname THEN fields ELSE files.at[k]]]

\* files_in_zip[fname] = {...}: the four assignments of read_central_dir.
CatalogPut(files, fname, fields) ==
    [names |-> IF fname \in DOMAIN files.at THEN files.names
               ELSE Append(files.names, fname),
     at |-> DictSet(files.at, fname, fields)]

\* The entry read_central_dir makes of a parsed header.
CatalogFields(cdfh) ==
    [position |-> cdfh.start, length |-> cdfh.uncomp_len,
     date_time |-> cdfh.date_time, extra |-> cdfh.extra]

\* ------------------------------------------------------------- the listing

\* a + b + carry of Python integers, digit by digit.
RECURSIVE AddDigits(_, _, _)
AddDigits(a, b, carry) ==
    IF a = <<>> /\ b = <<>> THEN (IF carry = 0 THEN <<>> ELSE <<carry>>)
    ELSE <<((IF a = <<>> THEN 0 ELSE a[1]) + (IF b = <<>> THEN 0 ELSE b[1]) + carry)
             % 256>>
         \o AddDigits(IF a = <<>> THEN <<>> ELSE Tail(a),
                      IF b = <<>> THEN <<>> ELSE Tail(b),
                      ((IF a = <<>> THEN 0 ELSE a[1]) + (IF b = <<>> THEN 0 ELSE b[1])
                       + carry) \div 256)

\* A sum that keeps the length of the entry it met last.
FileSizeSumLast(files, n) ==
    IF n = 0 THEN <<>> ELSE files.at[files.names[n]].length

\* file_size_sum after the first n entries of files_in_zip.items().
RECURSIVE FileSizeSum(_, _)
FileSizeSum(files, n) ==
    IF n = 0 THEN <<>>
    ELSE AddDigits(FileSizeSum(files, n - 1), files.at[files.names[n]].length, 0)

\* date_time.isoformat(sep=" ", timespec="minutes"): the seconds are left out.
IsoMinutes(date_time) == SubSeq(date_time, 1, 5)

\* The lines pretty_print_files yields, each as the text it is and the values
\* formatted in it.
PrettyPrintFiles(archive_name, files) ==
    <<[line |-> "Archive:", archive_name |-> archive_name],
      [line |-> "  Length      Date    Time    Name"],
      [line |-> "---------  ---------- -----   ----"]>>
    \o [n \in 1..Len(files.names) |->
          [line |-> "row",
           length |-> files.at[files.names[n]].length,
           date_time |-> IsoMinutes(files.at[files.names[n]].date_time),
           file_name |-> files.names[n]]]
    \o <<[line |-> "---------                     ----"],
         [line |-> "files", file_size_sum |-> FileSizeSum(files, Len(files.names)),
          count |-> Len(files.names)]>>

\* args.zipfile
ArchiveName == "archive.zip"

\* ------------------------------------------------------------------- the state

VARIABLES
    entry,          \* the function called: main, or one called on its own
    layout,         \* how the input was laid out: the kinds of its parts
    detector,       \* chardet's answer for a string that is not plain ascii
    archive,        \* the bytes of the stream
    kind,           \* how the stream answers a seek before its start
    pc,             \* where the call is
    pos,            \* the position of the stream
    located,        \* what find_central_dir found and returned
    files_in_zip,   \* the catalog of read_central_dir
    walked,         \* one record per iteration of read_central_dir's loop
    err,            \* the exception that ended the call
    handed,         \* the positions main handed to unzip_file_at_pos
    call,           \* the arguments of a call of parse_extra_fields
    ret,            \* what parse_extra_fields returned
    listed          \* the lines main printed of pretty_print_files

vars == <<entry, layout, detector, archive, kind, pc, pos, located, files_in_zip,
          walked, err, handed, call, ret, listed>>

SeqsUpTo(S, n) == UNION {[1..k -> S] : k \in 0..n}

NotLocated == [found |-> Located("none", <<>>, -1, -1, FALSE), from |-> 0,
               einval |-> FALSE]

NoCall == [extra_bytes |-> <<>>, overwrite |-> EmptyDict, in_cd |-> TRUE]
NoReturn == [err |-> "none", extra |-> EmptyDict, overwrite |-> EmptyDict]

NoLayout == [items |-> <<>>, trailer |-> "none", comment |-> 0, subs |-> <<>>]

\* chardet is a function of the bytes: one answer per run for the strings that
\* are not plain ascii, and none to choose when every string is.
Detectors(items) ==
    IF \E i \in 1..Len(items) : items[i] = "latinA" THEN ChardetAnswers
    ELSE {"None"}

StreamKinds == {"local", "clamp", "broken"}

\* The unpacked fields of a header as parse_extra_fields is given them.
HeaderDict(in_cd) ==
    IF in_cd
    THEN [comp_len |-> Sentinel32, uncomp_len |-> Sentinel32, start |-> Sentinel32,
          disk_num |-> FromBytes(<<255, 255>>), crc32 |-> FromBytes(<<1, 2, 3, 4>>),
          fname |-> NameA]
    ELSE [comp_len |-> Sentinel32, uncomp_len |-> Sentinel32,
          crc32 |-> FromBytes(<<1, 2, 3, 4>>), fname |-> NameA]

Quiet ==
    /\ located = NotLocated
    /\ files_in_zip = EmptyCatalog
    /\ walked = <<>>
    /\ err = "none"
    /\ handed = <<>>
    /\ ret = NoReturn
    /\ listed = <<>>

\* main() on an archive: local file headers, a central directory of
\* well-formed headers, and a trailer that points at it, or no trailer.
InitMain ==
    /\ entry = "main"
    /\ \E items \in SeqsUpTo(GoodHeaderKinds, MaxItems),
          t \in {"eocd", "zip64", "none"} :
         /\ layout = [items |-> items, trailer |-> t, comment |-> 0, subs |-> <<>>]
         /\ detector \in Detectors(items)
         /\ archive = BytesIO(LocalPart \o Region(items)
                              \o Trailer(t, Len(Region(items)), CdStart, 0))
    /\ kind \in StreamKinds
    /\ pc = "find"
    /\ pos = 0
    /\ call = NoCall
    /\ Quiet

\* find_central_dir on a stream: a local file header, a run of member data
\* that makes the file shorter or longer than the search window, one central
\* directory header, and a trailer.
InitFind ==
    /\ entry = "find_central_dir"
    /\ \E t \in TrailerKinds, z \in {0, SearchWindow},
          c \in 0..MaxComment :
         /\ c > 0 => t \notin {"cutEocd", "none"}
         /\ layout = [items |-> <<"plainA">>, trailer |-> t, comment |-> c,
                      subs |-> <<>>]
         /\ archive = [pre |-> LocalHeader(NameA), zeros |-> z,
                       post |-> ItemBytes("plainA")
                                \o Trailer(t, Len(ItemBytes("plainA")),
                                           Len(LocalHeader(NameA)) + z, c)]
    /\ detector = "None"
    /\ kind \in StreamKinds
    /\ pc = "find"
    /\ pos = 0
    /\ call = NoCall
    /\ Quiet

\* find_central_dir on a stream too short to hold any record.
InitFindTiny ==
    /\ entry = "find_central_dir"
    /\ layout = NoLayout
    /\ archive = BytesIO(<<80, 75, 3>>)
    /\ detector = "None"
    /\ kind \in StreamKinds
    /\ pc = "find"
    /\ pos = 0
    /\ call = NoCall
    /\ Quiet

\* read_central_dir on a stream positioned at the start of a central
\* directory region made of any records.
InitWalk ==
    /\ entry = "read_central_dir"
    /\ \E items \in SeqsUpTo(ItemKinds, MaxItems) :
         /\ layout = [items |-> items, trailer |-> "none", comment |-> 0,
                      subs |-> <<>>]
         /\ detector \in Detectors(items)
         /\ archive = BytesIO(LocalPart \o Region(items))
    /\ kind = "clamp"
    /\ pc = "walk"
    /\ pos = CdStart
    /\ call = NoCall
    /\ Quiet

\* read_central_dir on a stream too short to hold any signature.
InitWalkTiny ==
    /\ entry = "read_central_dir"
    /\ layout = NoLayout
    /\ archive \in {BytesIO(<<>>), BytesIO(<<80, 75, 3>>)}
    /\ detector = "None"
    /\ kind = "clamp"
    /\ pc = "walk"
    /\ pos = 0
    /\ call = NoCall
    /\ Quiet

SubKinds == {"ut", "ut1", "ut0", "ut13", "ut9", "ut3", "ux", "ux2", "uxEmpty",
             "uxShort", "z8", "z16", "z24", "z28", "z12", "unk", "cut"}

\* parse_extra_fields on an extra-field area made of any sub-records, for a
\* central directory header or a local file header.  A sub-record cut short
\* in its head is the last of its area.
InitExtra ==
    /\ entry = "parse_extra_fields"
    /\ \E subs \in SeqsUpTo(SubKinds, MaxSubs), in_cd \in BOOLEAN :
         /\ \A i \in 1..(Len(subs) - 1) : subs[i] # "cut"
         /\ layout = [items |-> <<>>, trailer |-> "none", comment |-> 0,
                      subs |-> subs]
         /\ call = [extra_bytes |-> ExtraArea(subs), overwrite |-> HeaderDict(in_cd),
                    in_cd |-> in_cd]
    /\ archive = BytesIO(<<>>)
    /\ detector = "None"
    /\ kind = "clamp"
    /\ pc = "call"
    /\ pos = 0
    /\ Quiet

Init == InitMain \/ InitFind \/ InitFindTiny \/ InitWalk \/ InitWalkTiny \/ InitExtra

\* ----------------------------------------------------------------- the actions

\* find_central_dir, called by main or on its own.  main catches OSError,
\* prints it and exits; any other exception leaves main as it leaves the
\* function.
FindCentralDirCall ==
    /\ pc = "find"
    /\ \E r \in {FindCentralDir(archive, kind, detector)} :
           /\ located' = r
           /\ err' = r.found.err
           /\ pc' = IF r.found.err = "none"
                    THEN (IF entry = "main" THEN "seek" ELSE "returned")
                    ELSE IF r.found.err = "OSError" /\ entry = "main" THEN "exit"
                    ELSE "raised"
    /\ UNCHANGED <<listed, entry, layout, detector, archive, kind, pos, files_in_zip,
                   walked, handed, call, ret>>

\* f.seek(cd_pos, 0) of main.
SeekCentralDir ==
    /\ pc = "seek"
    /\ pos' = AsSize(located.found.cd_pos)
    /\ pc' = "walk"
    /\ UNCHANGED <<listed, entry, layout, detector, archive, kind, located, files_in_zip,
                   walked, err, handed, call, ret>>

\* The 4 bytes read at the top of the loop of read_central_dir.
ByteBlock == Read(archive, pos, 4)
HeaderId == FromBytes(ByteBlock)

\* Where the loop's end leaves the caller.
AfterWalk == IF entry = "main" THEN "extract" ELSE "returned"

\* One iteration as the walk records it.
Iteration(what, to, e, fname, fields) ==
    [what |-> what, from |-> pos, to |-> to, err |-> e, fname |-> fname,
     fields |-> fields]

\* What an iteration that parsed a record and put nothing in the catalog
\* leaves behind.
Discarded(what, r) ==
    /\ pos' = r.pos
    /\ err' = r.err
    /\ pc' = IF r.err = "none" THEN "walk" ELSE "raised"
    /\ walked' = Append(walked, Iteration(what, r.pos, r.err, <<>>, NoRecord))
    /\ UNCHANGED files_in_zip

\* An end-of-file branch that goes round the loop again instead of breaking.
WalkEofContinues ==
    /\ pc = "walk"
    /\ Len(ByteBlock) < 4
    /\ pos' = pos + Len(ByteBlock)
    /\ pc' = "walk"
    /\ walked' = Append(walked, Iteration("eof", pos + Len(ByteBlock), "none", <<>>,
                                          NoRecord))
    /\ UNCHANGED <<listed, entry, layout, detector, archive, kind, located, files_in_zip,
                   err, handed, call, ret>>

\* Fewer than 4 bytes are left: break.
WalkEof ==
    /\ pc = "walk"
    /\ Len(ByteBlock) < 4
    /\ pos' = pos + Len(ByteBlock)
    /\ pc' = AfterWalk
    /\ walked' = Append(walked, Iteration("eof", pos + Len(ByteBlock), "none", <<>>,
                                          NoRecord))
    /\ UNCHANGED <<listed, entry, layout, detector, archive, kind, located, files_in_zip,
                   err, handed, call, ret>>

\* Central Directory File Header: parse it and put its entry in the catalog.
WalkFileHeader ==
    /\ pc = "walk"
    /\ Len(ByteBlock) = 4
    /\ HeaderId = SigCentralDirFileHeader
    /\ \E r \in {ParseCentralDirFileHeader(archive, pos + 4, detector)} :
           /\ pos' = r.pos
           /\ err' = r.err
           /\ pc' = IF r.err = "none" THEN "walk" ELSE "raised"
           /\ files_in_zip' = IF r.err = "none"
                              THEN CatalogPut(files_in_zip, r.rec.fname,
                                              CatalogFields(r.rec))
                              ELSE files_in_zip
           /\ walked' = Append(walked,
                               IF r.err = "none"
                               THEN Iteration("cdfh", r.pos, r.err, r.rec.fname,
                                              CatalogFields(r.rec))
                               ELSE Iteration("cdfh", r.pos, r.err, <<>>, NoRecord))
    /\ UNCHANGED <<listed, entry, layout, detector, archive, kind, located, handed, call,
                   ret>>

\* End of Central Directory Record: parse and discard.
WalkEndRecord ==
    /\ pc = "walk"
    /\ Len(ByteBlock) = 4
    /\ HeaderId = SigEndOfCentralDir
    /\ Discarded("eocd", ParseEndOfCentralDirRecord(archive, pos + 4, detector))
    /\ UNCHANGED <<listed, entry, layout, detector, archive, kind, located, handed, call,
                   ret>>

\* Zip64 end of central directory record: parse and discard.
WalkEndRecordZip64 ==
    /\ pc = "walk"
    /\ Len(ByteBlock) = 4
    /\ HeaderId = SigEndOfCentralDirZip64
    /\ Discarded("eocd64", ParseEndOfCentralDirRecordZip64(archive, pos + 4, detector))
    /\ UNCHANGED <<listed, entry, layout, detector, archive, kind, located, handed, call,
                   ret>>

\* Zip64 end of central directory locator: parse and discard.
WalkLocatorZip64 ==
    /\ pc = "walk"
    /\ Len(ByteBlock) = 4
    /\ HeaderId = SigEndOfCentralDirLocatorZip64
    /\ Discarded("locator", ParseEndOfCentralDirLocatorZip64(archive, pos + 4))
    /\ UNCHANGED <<listed, entry, layout, detector, archive, kind, located, handed, call,
                   ret>>

\* An else branch that prints the unknown header and goes on with the loop.
UnknownHeaderSkipped(files) == [files |-> files, err |-> "none", stop |-> FALSE]

\* What the else branch of the dispatch does with the catalog and the loop:
\* print the unknown header and break.
UnknownHeader(files) == [files |-> files, err |-> "none", stop |-> TRUE]

\* Any other header: stop.
WalkUnknown ==
    /\ pc = "walk"
    /\ Len(ByteBlock) = 4
    /\ HeaderId \notin {SigCentralDirFileHeader, SigEndOfCentralDir,
                        SigEndOfCentralDirZip64, SigEndOfCentralDirLocatorZip64}
    /\ \E u \in {UnknownHeader(files_in_zip)} :
           /\ files_in_zip' = u.files
           /\ err' = u.err
           /\ pc' = IF u.err # "none" THEN "raised"
                    ELSE IF u.stop THEN AfterWalk ELSE "walk"
    /\ pos' = pos + 4
    /\ walked' = Append(walked, Iteration("unknown", pos + 4, "none", <<>>, NoRecord))
    /\ UNCHANGED <<listed, entry, layout, detector, archive, kind, located, handed, call,
                   ret>>

\* main's loop over the catalog, with the pattern * that matches every name:
\* each entry's position is the offset handed to unzip_file_at_pos, which
\* seeks to it.
ExtractFile ==
    /\ pc = "extract"
    /\ Len(handed) < Len(files_in_zip.names)
    /\ handed' = Append(handed,
                        files_in_zip.at[files_in_zip.names[Len(handed) + 1]].position)
    /\ UNCHANGED <<listed, entry, layout, detector, archive, kind, pc, pos, located,
                   files_in_zip, walked, err, call, ret>>

\* args.list is True: main prints the lines of pretty_print_files and exits
\* before any file is extracted.
ListFiles ==
    /\ entry = "main"
    /\ pc = "extract"
    /\ handed = <<>>
    /\ listed' = PrettyPrintFiles(ArchiveName, files_in_zip)
    /\ pc' = "exit"
    /\ UNCHANGED <<entry, layout, detector, archive, kind, pos, located,
                   files_in_zip, walked, err, handed, call, ret>>

\* The end of main.
Exit ==
    /\ pc = "extract"
    /\ Len(handed) = Len(files_in_zip.names)
    /\ pc' = "exit"
    /\ UNCHANGED <<listed, entry, layout, detector, archive, kind, pos, located,
                   files_in_zip, walked, err, handed, call, ret>>

\* parse_extra_fields called on its own.
ParseExtraFieldsCall ==
    /\ pc = "call"
    /\ \E r \in {ParseExtraFields(call.extra_bytes, call.overwrite, call.in_cd)} :
           /\ ret' = r
           /\ err' = r.err
           /\ pc' = IF r.err = "none" THEN "returned" ELSE "raised"
    /\ UNCHANGED <<listed, entry, layout, detector, archive, kind, pos, located,
                   files_in_zip, walked, handed, call>>

Next ==
    \/ FindCentralDirCall
    \/ SeekCentralDir
    \/ WalkEof
    \/ WalkFileHeader
    \/ WalkEndRecord
    \/ WalkEndRecordZip64
    \/ WalkLocatorZip64
    \/ WalkUnknown
    \/ ExtractFile
    \/ ListFiles
    \/ Exit
    \/ ParseExtraFieldsCall

Spec == Init /\ [][Next]_vars

\* ------------------------------------------------------------------ properties

\* find_central_dir has returned or raised.
FindDone == entry \in {"main", "find_central_dir"} /\ pc # "find"

\* Where the central directory of the stream laid out starts.
LaidDirStart == IF entry = "main" THEN CdStart ELSE Len(archive.pre) + archive.zeros

\* The trailers whose End of Central Directory Record holds 0xffffffff and
\* that have a zip64 record before it, and the dir_start laid out in that
\* record.
Zip64Trailers == {"zip64", "big64", "big64x", "big64y"}
Zip64DirStart ==
    IF layout.trailer = "zip64" THEN FromBytes(LE64(LaidDirStart))
    ELSE FromBytes(BigOffset)

\* C1: when the End of Central Directory Record in the window holds the
\* sentinel 0xffffffff as dir_start and the zip64 record is in the same
\* window, find_central_dir returns the 64-bit dir_start of the zip64 record,
\* and never the sentinel.
C1_Zip64OffsetReturned ==
    (FindDone /\ layout.trailer \in Zip64Trailers /\ kind # "broken")
    => /\ located.found.err = "none"
       /\ located.found.cd_pos = Zip64DirStart
       /\ located.found.cd_pos # Sentinel32

\* C2: when the window holds no End of Central Directory signature,
\* find_central_dir fails and returns no offset.
C2_NoSignatureFails ==
    (FindDone /\ layout.trailer = "none" /\ kind # "broken")
    => located.found.err # "none"

ShortFile == FLen(archive) < SearchWindow

OtherKind == IF kind = "local" THEN "clamp" ELSE "local"

\* C3: for a file shorter than the search window, find_central_dir searches
\* from offset 0, and what it returns is what the search of the whole file
\* returns, whichever way the stream answers the seek before its start.
C3_ShortFileSearchedWhole ==
    (FindDone /\ ShortFile /\ kind # "broken")
    => /\ located.from = 0
       /\ located.found = SearchBlock(archive, detector)
       /\ located.found = FindCentralDir(archive, OtherKind, detector).found

\* A short local file, whose seek raised EINVAL, was searched from 0 and the
\* directory offset laid out in it returned.
C3_Witness ==
    /\ entry = "find_central_dir"
    /\ pc = "returned"
    /\ ShortFile
    /\ kind = "local"
    /\ located.einval
    /\ located.from = 0
    /\ layout.trailer = "eocd"
    /\ located.found.cd_pos = FromBytes(LE32(LaidDirStart))

\* The fields a Zip64 sub-record of each kind declares present, in the order
\* uncomp_len, comp_len, start, disk_num, with the values laid out in it.
Zip64Declared(k) ==
    CASE k = "z8"  -> [uncomp_len |-> FromBytes(BigLength)]
      [] k = "z16" -> [uncomp_len |-> FromBytes(BigLength),
                       comp_len |-> FromBytes(BigCompLength)]
      [] k = "z24" -> [uncomp_len |-> FromBytes(BigLength),
                       comp_len |-> FromBytes(BigCompLength),
                       start |-> FromBytes(BigOffset)]
      [] k = "z28" -> [uncomp_len |-> <<9>>, comp_len |-> <<8>>, start |-> <<31>>,
                       disk_num |-> <<2>>]
      [] OTHER     -> EmptyDict

\* The sub-records of subs that declare field f present.
Declaring(subs, f) == {i \in 1..Len(subs) : f \in DOMAIN Zip64Declared(subs[i])}

Latest(S) == CHOOSE i \in S : \A j \in S : j <= i

\* The header the sub-records of subs should leave: a field declared present
\* has the value of the last sub-record declaring it, any other field is the
\* header's own.
Zip64Expected(header, subs) ==
    [f \in DOMAIN header \cup {g \in {"uncomp_len", "comp_len", "start", "disk_num"} :
                                 Declaring(subs, g) # {}} |->
        IF Declaring(subs, f) # {}
        THEN Zip64Declared(subs[Latest(Declaring(subs, f))])[f]
        ELSE header[f]]

\* C4: the Zip64 sub-records of an extra area change the header fields their
\* declared lengths say are present, in the order uncomp_len, comp_len, start,
\* disk_num, and no other field; a header with no Zip64 sub-record is
\* unchanged.
C4_Zip64OverwriteFrame ==
    (entry = "parse_extra_fields" /\ pc = "returned")
    => /\ ret.overwrite = Zip64Expected(call.overwrite, layout.subs)
       /\ (Declaring(layout.subs, "uncomp_len") = {}
           => ret.overwrite = call.overwrite)

\* A sub-record declaring 16 bytes overwrote the two lengths of a central
\* directory header and left its offset, disk number, crc and name alone.
C4_Witness ==
    /\ entry = "parse_extra_fields"
    /\ pc = "returned"
    /\ call.in_cd
    /\ \E i \in 1..Len(layout.subs) : layout.subs[i] = "z16"
    /\ ret.overwrite.uncomp_len = FromBytes(BigLength)
    /\ ret.overwrite.comp_len = FromBytes(BigCompLength)
    /\ ret.overwrite.start = Sentinel32
    /\ ret.overwrite.crc32 = call.overwrite.crc32
    /\ ret.overwrite.fname = call.overwrite.fname

\* Where the i-th record of the central directory region laid out starts.
ItemStart(i) == CdStart + Len(Region(SubSeq(layout.items, 1, i - 1)))

\* The iterations of the walk that put an entry in the catalog, and the last
\* of them for a name.
IsEntry(j) == walked[j].what = "cdfh" /\ walked[j].err = "none"
LastFor(j) ==
    /\ IsEntry(j)
    /\ \A k \in (j + 1)..Len(walked) : IsEntry(k) => walked[k].fname # walked[j].fname

\* The headers laid out with a Zip64 sub-record, and the position and length
\* that sub-record and the header give each.
Zip64HeaderKinds == {"z28B", "z8B", "z24A", "unkA"}
Zip64Entry(k) ==
    CASE k = "z28B" -> [position |-> <<31>>, length |-> <<9>>]
      [] k = "z8B"  -> [position |-> FromBytes(LE32(OffsetB)),
                        length |-> FromBytes(BigLength)]
      [] k = "z24A" -> [position |-> FromBytes(BigOffset),
                        length |-> FromBytes(BigLength)]
      [] k = "unkA" -> [position |-> <<>>, length |-> FromBytes(BigLength)]

\* C5: the catalog entry of a header with a Zip64 sub-record holds the 64-bit
\* offset and length of the sub-record as position and length, and the offset
\* main hands to unzip_file_at_pos for it is that position.
C5_CatalogHoldsZip64Values ==
    entry \in {"main", "read_central_dir"}
    => \A j \in 1..Len(walked) : \A i \in 1..Len(layout.items) :
         (/\ LastFor(j)
          /\ walked[j].from = ItemStart(i)
          /\ layout.items[i] \in Zip64HeaderKinds)
         => /\ files_in_zip.at[walked[j].fname].position
                 = Zip64Entry(layout.items[i]).position
            /\ files_in_zip.at[walked[j].fname].length
                 = Zip64Entry(layout.items[i]).length
            /\ \A n \in 1..Len(handed) :
                 files_in_zip.names[n] = walked[j].fname
                 => handed[n] = Zip64Entry(layout.items[i]).position

\* main has handed the offset beyond 4 GiB of a header, whose 32-bit fields
\* are all 0xffffffff, to unzip_file_at_pos.
C5_Witness ==
    /\ entry = "main"
    /\ pc = "exit"
    /\ err = "none"
    /\ \E i \in 1..Len(layout.items) : layout.items[i] = "z24A"
    /\ \E n \in 1..Len(handed) :
         /\ handed[n] = FromBytes(BigOffset)
         /\ files_in_zip.at[files_in_zip.names[n]].length = FromBytes(BigLength)

\* C6: the catalog has one entry per distinct name of the headers walked, and
\* the entry of a name is that of the last header walked with that name.
C6_LastHeaderWins ==
    entry \in {"main", "read_central_dir"}
    => /\ DOMAIN files_in_zip.at
            = {walked[j].fname : j \in {k \in 1..Len(walked) : IsEntry(k)}}
       /\ Len(files_in_zip.names) = Cardinality(DOMAIN files_in_zip.at)
       /\ \A n \in 1..Len(files_in_zip.names) :
            files_in_zip.names[n] \in DOMAIN files_in_zip.at
       /\ \A j \in 1..Len(walked) :
            LastFor(j) => files_in_zip.at[walked[j].fname] = walked[j].fields

\* Two headers with one name and different fields were walked, and the catalog
\* returned has the one entry of the second.
C6_Witness ==
    /\ entry = "read_central_dir"
    /\ pc = "returned"
    /\ Len(walked) = 3
    /\ IsEntry(1) /\ IsEntry(2)
    /\ walked[1].fname = walked[2].fname
    /\ walked[1].fields # walked[2].fields
    /\ Cardinality(DOMAIN files_in_zip.at) = 1
    /\ files_in_zip.at[walked[2].fname] = walked[2].fields

\* C7: when the 4 bytes read by the loop of read_central_dir are none of the
\* four signatures it knows, the loop ends, leaves the catalog as it is and
\* raises nothing.
C7_UnknownSignatureStops ==
    [][(/\ pc = "walk"
        /\ Len(ByteBlock) = 4
        /\ HeaderId \notin {SigCentralDirFileHeader, SigEndOfCentralDir,
                            SigEndOfCentralDirZip64, SigEndOfCentralDirLocatorZip64})
       => (/\ pc' = AfterWalk
           /\ err' = "none"
           /\ files_in_zip' = files_in_zip)]_vars

\* read_central_dir returned a catalog of one entry after it met a Local File
\* Header signature behind a header.
C7_Witness ==
    /\ entry = "read_central_dir"
    /\ pc = "returned"
    /\ err = "none"
    /\ Len(walked) = 2
    /\ IsEntry(1)
    /\ walked[2].what = "unknown"
    /\ Cardinality(DOMAIN files_in_zip.at) = 1

\* C8: an End of Central Directory Record, a zip64 record or a zip64 locator
\* met by the walk is consumed to its last byte and raises nothing, so that the
\* walk goes on at the signature of the record behind it.
C8_EndRecordConsumedExactly ==
    entry = "read_central_dir"
    => \A j \in 1..Len(walked) : \A i \in 1..Len(layout.items) :
         (walked[j].from = ItemStart(i) /\ layout.items[i] \in EndKinds)
         => /\ walked[j].err = "none"
            /\ walked[j].to = ItemStart(i) + Len(ItemBytes(layout.items[i]))

\* The headers whose extra area has a sub-record that a decoder rejects.
BadExtraKinds == {"badZip64", "badUx", "badSub"}

\* C9: a header whose extra area has a sub-record that fails to decode does
\* not end the walk with an exception.
C9_SubRecordFailureTolerated ==
    entry = "read_central_dir"
    => \A j \in 1..Len(walked) : \A i \in 1..Len(layout.items) :
         (walked[j].from = ItemStart(i) /\ layout.items[i] \in BadExtraKinds)
         => walked[j].err = "none" /\ pc # "raised"

\* The little-endian value of the field whose length byte is the at-th byte
\* of bs.
LengthPrefixed(bs, at) == FromBytes(SubSeq(bs, at + 1, at + bs[at]))

\* C10: of a Unix uid/gid sub-record of version 1, uid is the value of the
\* length-prefixed field behind the version byte, and gid the value of the
\* length-prefixed field behind the bytes of uid.
C10_GidFollowsUid ==
    (/\ entry = "parse_extra_fields"
     /\ pc = "returned"
     /\ layout.subs # <<>>
     /\ layout.subs[Len(layout.subs)] = "ux")
    => /\ ret.extra[HidUidGid].uid = LengthPrefixed(UidGidPayload, 2)
       /\ ret.extra[HidUidGid].gid
            = LengthPrefixed(UidGidPayload, 3 + UidGidPayload[2])

\* The Universal time sub-records laid out, with the length each declares and
\* its payload.
UtKinds == {"ut", "ut1", "ut0", "ut13", "ut9", "ut3"}
UtDeclared(k) == U16(SubSeq(SubBytes(k), 3, 4))
UtPayload(k) == SubSeq(SubBytes(k), 5, Len(SubBytes(k)))

\* The last sub-record of the area handed to parse_extra_fields.
LastSub == layout.subs[Len(layout.subs)]

ExtraReturned ==
    entry = "parse_extra_fields" /\ pc = "returned" /\ layout.subs # <<>>

\* C11: a Universal time sub-record of a central directory header decodes to
\* at most the modification time, which is there only if the declared length
\* is greater than 1, and is then the 4 bytes behind the flag byte.
C11_CentralTimeOnlyIfDeclared ==
    (ExtraReturned /\ call.in_cd /\ LastSub \in UtKinds)
    => /\ DOMAIN ret.extra[HidUniversalTime] \subseteq {"mod_time"}
       /\ ("mod_time" \in DOMAIN ret.extra[HidUniversalTime]
           <=> UtDeclared(LastSub) > 1)
       /\ (UtDeclared(LastSub) > 1
           => ret.extra[HidUniversalTime].mod_time
                = FromBytes(PySlice(UtPayload(LastSub), 1, 5)))

\* The timestamps a flag byte and the bytes behind it hold: each of
\* modification, access and creation is there if its bit is set and 4 bytes
\* are left for it, and takes the 4 bytes behind the one taken before it.
TimesHeld(payload) ==
    LET flags == payload[1]
        r0 == Tail(payload)
        m == BitSet(flags, 1) /\ Len(r0) >= 4
        r1 == IF m THEN SubSeq(r0, 5, Len(r0)) ELSE r0
        a == BitSet(flags, 2) /\ Len(r1) >= 4
        r2 == IF a THEN SubSeq(r1, 5, Len(r1)) ELSE r1
        c == BitSet(flags, 4) /\ Len(r2) >= 4
    IN  [k \in (IF m THEN {"mod_time"} ELSE {}) \cup (IF a THEN {"acc_time"} ELSE {})
               \cup (IF c THEN {"cre_time"} ELSE {}) |->
           IF k = "mod_time" THEN FromBytes(SubSeq(r0, 1, 4))
           ELSE IF k = "acc_time" THEN FromBytes(SubSeq(r1, 1, 4))
           ELSE FromBytes(SubSeq(r2, 1, 4))]

\* C12: a Universal time sub-record of a local file header decodes to the
\* timestamps its flag byte selects, in the order modification, access,
\* creation, each only if 4 bytes are left for it.
C12_LocalTimesGatedByFlags ==
    (ExtraReturned /\ ~call.in_cd /\ LastSub \in UtKinds /\ UtPayload(LastSub) # <<>>)
    => ret.extra[HidUniversalTime] = TimesHeld(UtPayload(LastSub))

\* The identifier of each kind of sub-record laid out, and the kinds that a
\* decoder raises on.
HidOfKind(k) ==
    IF k \in UtKinds THEN HidUniversalTime
    ELSE IF k \in {"ux", "ux2", "uxEmpty", "uxShort"} THEN HidUidGid
    ELSE IF k = "unk" THEN HidUnknown
    ELSE HidZip64
RaisingKinds == {"z12", "uxEmpty", "uxShort", "cut"}
                \cup (IF call.in_cd THEN {} ELSE {"ut0"})

\* C16: a sub-record with an unknown identifier is stored as its payload bytes
\* under that identifier, raises nothing, and the sub-records behind it are
\* decoded.
C16_UnknownIdStoredRaw ==
    (/\ entry = "parse_extra_fields"
     /\ pc # "call"
     /\ \E i \in 1..Len(layout.subs) : layout.subs[i] = "unk"
     /\ \A i \in 1..Len(layout.subs) : layout.subs[i] \notin RaisingKinds)
    => /\ pc = "returned"
       /\ err = "none"
       /\ ret.extra[HidUnknown] = [raw |-> <<17, 34>>]
       /\ \A i \in 1..Len(layout.subs) :
            /\ HidOfKind(layout.subs[i]) \in DOMAIN ret.extra
            /\ (/\ layout.subs[i] \in {"z8", "z16", "z24", "z28"}
                /\ \A j \in (i + 1)..Len(layout.subs) :
                     HidOfKind(layout.subs[j]) # HidZip64)
               => ret.extra[HidZip64] = Zip64Declared(layout.subs[i])

\* An unknown sub-record was stored raw and the Zip64 sub-record behind it was
\* decoded and applied.
C16_Witness ==
    /\ entry = "parse_extra_fields"
    /\ pc = "returned"
    /\ layout.subs = <<"unk", "z16">>
    /\ ret.extra[HidUnknown] = [raw |-> <<17, 34>>]
    /\ ret.extra[HidZip64] = Zip64Declared("z16")
    /\ ret.overwrite.comp_len = FromBytes(BigCompLength)

\* The walk of read_central_dir is over.
WalkDone == entry = "read_central_dir" /\ pc \in {"returned", "raised"}

\* The records laid out that the stream ends in the middle of: in the
\* signature, in the fixed part, in the comment.
CutKinds == {"short", "cutHead", "cutComment"}

\* C13: a record that the stream has fewer bytes for than it requires makes
\* read_central_dir raise, and not return a catalog.
C13_ShortReadRaises ==
    (/\ WalkDone
     /\ layout.items # <<>>
     /\ layout.items[Len(layout.items)] \in CutKinds
     /\ \A i \in 1..(Len(layout.items) - 1) : layout.items[i] \in {"plainA", "timedB"})
    => pc = "raised" /\ err # "none"

\* C14: every position in the catalog is inside the archive and has the
\* signature of a Local File Header at it.
C14_PositionsAtLocalHeaders ==
    entry \in {"main", "read_central_dir"}
    => \A n \in DOMAIN files_in_zip.at :
         /\ Len(files_in_zip.at[n].position) <= 3
         /\ AsSize(files_in_zip.at[n].position) + 4 <= FLen(archive)
         /\ FSlice(archive, AsSize(files_in_zip.at[n].position),
                   AsSize(files_in_zip.at[n].position) + 4) = <<80, 75, 3, 4>>

\* C15: a header whose name is empty, or is not plain ascii when the detector
\* finds no encoding or one that does not decode it, is still parsed.
C15_DecodeFailureFallsBack ==
    entry = "read_central_dir"
    => \A j \in 1..Len(walked) : \A i \in 1..Len(layout.items) :
         (walked[j].from = ItemStart(i) /\ layout.items[i] \in {"noName", "latinA"})
         => walked[j].err = "none" /\ walked[j].what = "cdfh"

\* The date field laid out in a header of each kind.
DateLaid(k) == IF k = "badDate" THEN 0 ELSE DosDate

\* C18: date_time of a header, and of its catalog entry, is made of the packed
\* date and time: year (date>>9)+1980, month (date>>5)&0xF, day date&0x1F,
\* hour time>>11, minute (time>>5)&0x3F, second (time&0x1F)*2, whatever the
\* Universal time sub-record says.
C18_LegacyDateTime ==
    entry = "read_central_dir"
    => \A j \in 1..Len(walked) : \A i \in 1..Len(layout.items) :
         (/\ walked[j].from = ItemStart(i)
          /\ layout.items[i] \in {"plainA", "timedB", "z24A", "badDate"})
         => /\ walked[j].err = "none"
            /\ walked[j].fields.date_time
                 = <<(DateLaid(layout.items[i]) \div 512) + 1980,
                     (DateLaid(layout.items[i]) \div 32) % 16,
                     DateLaid(layout.items[i]) % 32,
                     DosTime \div 2048, (DosTime \div 32) % 64, (DosTime % 32) * 2>>
            /\ (LastFor(j) => files_in_zip.at[walked[j].fname].date_time
                                = walked[j].fields.date_time)

\* C19: an End of Central Directory Record in the window, with an archive
\* comment of any length behind it, has its dir_start returned.
C19_CommentDoesNotFailLookup ==
    (FindDone /\ layout.trailer = "eocd" /\ kind # "broken")
    => /\ located.found.err = "none"
       /\ located.found.cd_pos = FromBytes(LE32(LaidDirStart))

\* The three low digits and the digits above them of a length, as numbers.
LowPart(n) ==
    (IF Len(n) > 0 THEN n[1] ELSE 0) + (IF Len(n) > 1 THEN 256 * n[2] ELSE 0)
    + (IF Len(n) > 2 THEN 65536 * n[3] ELSE 0)
HighPart(n) ==
    (IF Len(n) > 3 THEN n[4] ELSE 0) + (IF Len(n) > 4 THEN 256 * n[5] ELSE 0)
    + (IF Len(n) > 5 THEN 65536 * n[6] ELSE 0)

\* The sums of the two parts over the first n entries of the catalog.
RECURSIVE LowSum(_)
LowSum(n) ==
    IF n = 0 THEN 0
    ELSE LowSum(n - 1) + LowPart(files_in_zip.at[files_in_zip.names[n]].length)
RECURSIVE HighSum(_)
HighSum(n) ==
    IF n = 0 THEN 0
    ELSE HighSum(n - 1) + HighPart(files_in_zip.at[files_in_zip.names[n]].length)

\* C17: for a catalog of N entries pretty_print_files yields N+5 lines: the
\* archive line, the column line, a separator, one row per entry in catalog
\* order, a separator, and a summary with the sum of the lengths and N.
C17_ListingLines ==
    (entry = "main" /\ listed # <<>>)
    => LET N == Cardinality(DOMAIN files_in_zip.at)
       IN  /\ Len(listed) = N + 5
           /\ listed[1] = [line |-> "Archive:", archive_name |-> ArchiveName]
           /\ listed[2] = [line |-> "  Length      Date    Time    Name"]
           /\ listed[3] = [line |-> "---------  ---------- -----   ----"]
           /\ \A n \in 1..N :
                /\ listed[3 + n].line = "row"
                /\ listed[3 + n].file_name = files_in_zip.names[n]
                /\ listed[3 + n].length
                     = files_in_zip.at[files_in_zip.names[n]].length
           /\ listed[N + 4] = [line |-> "---------                     ----"]
           /\ listed[N + 5].line = "files"
           /\ listed[N + 5].count = N
           /\ LowPart(listed[N + 5].file_size_sum) = LowSum(N) % Huge
           /\ HighPart(listed[N + 5].file_size_sum) = HighSum(N) + (LowSum(N) \div Huge)
           /\ Len(listed[N + 5].file_size_sum) <= 6

\* Two entries were listed, one of 5 bytes and one of 4311744512, and the
\* summary line has 4311744517 and 2 files.
C17_Witness ==
    /\ entry = "main"
    /\ pc = "exit"
    /\ Len(listed) = 7
    /\ listed[4].length = <<5>>
    /\ listed[5].length = FromBytes(BigLength)
    /\ listed[7].file_size_sum = <<5, 0, 0, 1, 1>>
    /\ listed[7].count = 2

\* An iteration of the walk ends the walk or leaves the stream at least
\* 4 bytes further on.
WalkStep == pc = "walk" => (pc' # "walk" \/ pos' >= pos + 4)

\* The iterations of the walk are at most a quarter of the stream's length,
\* and the one that ends it.
IterationsBounded == Len(walked) <= (FLen(archive) \div 4) + 1

\* C20: read_central_dir terminates on every finite stream: each iteration
\* ends the walk or advances the stream position by at least 4 bytes, so the
\* iterations are at most the stream length divided by 4 and the one that
\* ends the walk.
C20_WalkTerminates ==
    /\ [][WalkStep]_vars
    /\ []IterationsBounded

\* C20 as stated: the iterations are at most the stream length divided by 4.
C20_IterationsWithinQuarter == 4 * Len(walked) <= FLen(archive)

\* A walk of two records and the short read that ended it has returned.
C20_Witness ==
    /\ entry = "read_central_dir"
    /\ pc = "returned"
    /\ Len(walked) = 3
    /\ walked[1].to >= walked[1].from + 4
    /\ walked[2].to >= walked[2].from + 4
    /\ walked[3].what = "eof"

====
